---------------------------- MODULE Spec2Model ----------------------------
(***************************************************************************)
(* State-machine model of the libgpiod_examples programs: input_events,    *)
(* input_simple, output_simple and output1_simple.                         *)
(*                                                                         *)
(* Each program is one thread (main) plus the asynchronous SIGINT handler  *)
(* ctrl_c_handler.  The environment is the operator (SIGINT) and the GPIO  *)
(* controller, which queues edge events on the request's file descriptor   *)
(* and may fail any call.  pc is main's position, named after the          *)
(* statement about to run; prog is the program that runs.  Spec is         *)
(* input_events; the other programs have their own specifications.         *)
(***************************************************************************)
EXTENDS Integers, Sequences, FiniteSets

\* ---------------------------------------------------------------- bounds
MaxKernelEvents == 3    \* edge events the controller produces in one run
MaxClock == 2           \* largest value of the event clock
MaxOverflow == 2        \* events queued beyond the capacity of the buffer
TimestampBits == 4      \* modelled width of uint64_t (TLC integers are 32 bit)
MaxPrinted == 3         \* input_simple: lines printed before the levels rest
MaxWrites == 5          \* output programs: writes made inside the loop

\* ------------------------------------------------------ program constants
a_gpio_num == 23
b_gpio_num == 24
max_events == 32
gpio_pin_cnt == 2
lsb_gpio_num == 23
msb_gpio_num == 24
code_max == 4
gpio_num == 23

offsets == <<a_gpio_num, b_gpio_num>>

OffsetSet == {offsets[k] : k \in 1..Len(offsets)}

VARIABLES
    prog,            \* the program that runs
    pc,              \* main's position
    exit_status,     \* value main has returned, -1 while it has not
    values_old,      \* input_simple: gpiod_line_value values_old[2]
    values_new,      \* input_simple: gpiod_line_value values_new[2]
    code,            \* output_simple, output1_simple: int code
    written,         \* history: the values handed to set_values/set_value
    quitting,        \* static bool quitting
    handler,         \* TRUE once signal(SIGINT, ctrl_c_handler) has run
    events,          \* gpiod_edge_event_buffer: "null" | "live"
    settings,        \* gpiod_line_settings: "null" | "live" | "freed"
    line_config,     \* gpiod_line_config: "null" | "live" | "freed"
    request_config,  \* gpiod_request_config: "null" | "live" | "freed"
    chip,            \* gpiod_chip: "null" | "open" | "closed"
    request,         \* gpiod_line_request: "null" | "held" | "released"
    kq,              \* controller's queue of edge events not yet read
    gseq,            \* controller: global_seqno of the last event produced
    lseq,            \* controller: line_seqno of the last event, per offset
    clock,           \* controller: event clock, no later timestamp is smaller
    level,           \* controller: current level of each requested line
    buffer,          \* contents of the event buffer after the last read
    num_events,      \* result of the last read
    i,               \* index of the reporting for-loop
    r2,              \* result of the last wait
    errno,           \* errno after the last wait
    last_ns,         \* uint64_t last_ns
    out,             \* stdout, one element per line printed
    batches,         \* history: the batches returned by read, in order
    outLenAtRead,    \* history: Len(out) when the last read returned
    interrupted,     \* history: SIGINT has woken a sleeping wait (-1, EINTR)
    teardown         \* history: release/close calls, in order

vars == <<prog, exit_status, values_old, values_new, code, written,
          pc, quitting, handler, events, settings, line_config,
          request_config, chip, request, kq, gseq, lseq, clock, level,
          buffer,
          num_events, i, r2, errno, last_ns, out, batches, outLenAtRead,
          interrupted, teardown>>

progVars == <<events, settings, line_config, request_config, chip, request>>
loopVars == <<buffer, num_events, i, r2, errno, last_ns, out, batches,
              outLenAtRead, interrupted, teardown>>
envVars  == <<kq, gseq, lseq, clock, level>>
sigVars  == <<quitting, handler>>
simpleVars == <<values_old, values_new, code, written>>
otherVars  == <<prog, exit_status, simpleVars>>
\* the state of input_events alone, which no other program touches
ieVars == <<events, kq, gseq, lseq, clock, buffer, num_events, r2, errno,
            last_ns, batches, outLenAtRead, interrupted>>

Terminated == {"done", "aborted", "killed"}

\* uint64_t arithmetic
Uint64Modulus == 2 ^ TimestampBits

Min(a, b) == IF a < b THEN a ELSE b

Init ==
    /\ prog = "input_events"
    /\ exit_status = -1
    /\ values_old = <<>>
    /\ values_new = <<>>
    /\ code = 0
    /\ written = <<>>
    /\ pc = "events_new"
    /\ quitting = FALSE
    /\ handler = FALSE
    /\ events = "null"
    /\ settings = "null"
    /\ line_config = "null"
    /\ request_config = "null"
    /\ chip = "null"
    /\ request = "null"
    /\ kq = <<>>
    /\ gseq = 0
    /\ lseq = [o \in OffsetSet |-> 0]
    /\ clock = 0
    /\ level \in [OffsetSet -> {0, 1}]
    /\ buffer = <<>>
    /\ num_events = 0
    /\ i = 0
    /\ r2 = 0
    /\ errno = "OK"
    /\ last_ns = 0
    /\ out = <<>>
    /\ batches = <<>>
    /\ outLenAtRead = 0
    /\ interrupted = FALSE
    /\ teardown = <<>>

\* the state every program starts in, but for the program and its entry
StartState ==
    /\ exit_status = -1
    /\ values_old = <<>>
    /\ values_new = <<>>
    /\ code = 0
    /\ written = <<>>
    /\ quitting = FALSE
    /\ handler = FALSE
    /\ events = "null"
    /\ settings = "null"
    /\ line_config = "null"
    /\ request_config = "null"
    /\ chip = "null"
    /\ request = "null"
    /\ kq = <<>>
    /\ gseq = 0
    /\ lseq = [o \in OffsetSet |-> 0]
    /\ clock = 0
    /\ level \in [OffsetSet -> {0, 1}]
    /\ buffer = <<>>
    /\ num_events = 0
    /\ i = 0
    /\ r2 = 0
    /\ errno = "OK"
    /\ last_ns = 0
    /\ out = <<>>
    /\ batches = <<>>
    /\ outLenAtRead = 0
    /\ interrupted = FALSE
    /\ teardown = <<>>

InitInputSimple ==
    prog = "input_simple" /\ pc = "is_settings_new" /\ StartState

InitOutputSimple ==
    prog = "output_simple" /\ pc = "os_line_config_new" /\ StartState

InitOutput1Simple ==
    prog = "output1_simple" /\ pc = "o1_line_config_new" /\ StartState

InitAll == Init \/ InitInputSimple \/ InitOutputSimple \/ InitOutput1Simple

\* ------------------------------------------------------------ start-up
\* A failed assert() aborts the process where it stands.
Abort == pc' = "aborted"

\* gpiod_edge_event_buffer_new(max_events); assert(events != nullptr)
EventBufferNew ==
    /\ pc = "events_new"
    /\ \E ok \in BOOLEAN :
          IF ok THEN events' = "live" /\ pc' = "settings_new"
                ELSE events' = events /\ Abort
    /\ UNCHANGED <<settings, line_config, request_config, chip, request>>
    /\ UNCHANGED <<sigVars, envVars, loopVars>>
    /\ UNCHANGED otherVars

\* gpiod_line_settings_new(); assert; the five gpiod_line_settings_set_* calls
SettingsNew ==
    /\ pc = "settings_new"
    /\ \E ok \in BOOLEAN :
          IF ok THEN settings' = "live" /\ pc' = "line_config_new"
                ELSE settings' = settings /\ Abort
    /\ UNCHANGED <<events, line_config, request_config, chip, request>>
    /\ UNCHANGED <<sigVars, envVars, loopVars>>
    /\ UNCHANGED otherVars

\* gpiod_line_config_new(); assert(line_config != nullptr)
LineConfigNew ==
    /\ pc = "line_config_new"
    /\ \E ok \in BOOLEAN :
          IF ok THEN line_config' = "live" /\ pc' = "add_line_settings"
                ELSE line_config' = line_config /\ Abort
    /\ UNCHANGED <<events, settings, request_config, chip, request>>
    /\ UNCHANGED <<sigVars, envVars, loopVars>>
    /\ UNCHANGED otherVars

\* r1 = gpiod_line_config_add_line_settings(...); assert(r1 == 0)
AddLineSettings ==
    /\ pc = "add_line_settings"
    /\ settings = "live" /\ line_config = "live"
    /\ \E r1 \in {0, -1} :
          IF r1 = 0 THEN pc' = "settings_free" ELSE Abort
    /\ UNCHANGED <<progVars, sigVars, envVars, loopVars>>
    /\ UNCHANGED otherVars

\* (mutant) the settings are never freed
SettingsFree_Skipped ==
    /\ pc = "settings_free"
    /\ pc' = "chip_open"
    /\ UNCHANGED <<progVars, sigVars, envVars, loopVars>>
    /\ UNCHANGED otherVars

\* gpiod_line_settings_free(settings); settings = nullptr
SettingsFree ==
    /\ pc = "settings_free"
    /\ settings' = "freed"
    /\ pc' = "chip_open"
    /\ UNCHANGED <<events, line_config, request_config, chip, request>>
    /\ UNCHANGED <<sigVars, envVars, loopVars>>
    /\ UNCHANGED otherVars

\* chip = gpiod_chip_open(chip_path); assert(chip != nullptr)
ChipOpen ==
    /\ pc = "chip_open"
    /\ \E ok \in BOOLEAN :
          IF ok THEN chip' = "open" /\ pc' = "request_config_new"
                ELSE chip' = chip /\ Abort
    /\ UNCHANGED <<events, settings, line_config, request_config, request>>
    /\ UNCHANGED <<sigVars, envVars, loopVars>>
    /\ UNCHANGED otherVars

\* gpiod_request_config_new(); assert; gpiod_request_config_set_consumer
RequestConfigNew ==
    /\ pc = "request_config_new"
    /\ \E ok \in BOOLEAN :
          IF ok THEN request_config' = "live" /\ pc' = "request_lines"
                ELSE request_config' = request_config /\ Abort
    /\ UNCHANGED <<events, settings, line_config, chip, request>>
    /\ UNCHANGED <<sigVars, envVars, loopVars>>
    /\ UNCHANGED otherVars

\* request = gpiod_chip_request_lines(chip, request_config, line_config);
\* assert(request != nullptr)
RequestLines ==
    /\ pc = "request_lines"
    /\ chip = "open" /\ request_config = "live" /\ line_config = "live"
    /\ \E ok \in BOOLEAN :
          IF ok THEN request' = "held" /\ pc' = "request_config_free"
                ELSE request' = request /\ Abort
    /\ UNCHANGED <<events, settings, line_config, request_config, chip>>
    /\ UNCHANGED <<sigVars, envVars, loopVars>>
    /\ UNCHANGED otherVars

\* gpiod_request_config_free(request_config); request_config = nullptr
RequestConfigFree ==
    /\ pc = "request_config_free"
    /\ request_config' = "freed"
    /\ pc' = "line_config_free"
    /\ UNCHANGED <<events, settings, line_config, chip, request>>
    /\ UNCHANGED <<sigVars, envVars, loopVars>>
    /\ UNCHANGED otherVars

\* gpiod_line_config_free(line_config); line_config = nullptr
LineConfigFree ==
    /\ pc = "line_config_free"
    /\ line_config' = "freed"
    /\ pc' = "print_debounce"
    /\ UNCHANGED <<events, settings, request_config, chip, request>>
    /\ UNCHANGED <<sigVars, envVars, loopVars>>
    /\ UNCHANGED otherVars

\* printf("debounce time = %lu usec\n", debounce_us); uint64_t last_ns = 0
PrintDebounce ==
    /\ pc = "print_debounce"
    /\ out' = Append(out, [kind |-> "banner"])
    /\ last_ns' = 0
    /\ pc' = "signal"
    /\ UNCHANGED <<buffer, num_events, i, r2, errno, batches, outLenAtRead,
                   interrupted, teardown>>
    /\ UNCHANGED <<progVars, sigVars, envVars>>
    /\ UNCHANGED otherVars

\* signal(SIGINT, ctrl_c_handler)
SignalInstall ==
    /\ pc = "signal"
    /\ handler' = TRUE
    /\ pc' = "while_test"
    /\ quitting' = quitting
    /\ UNCHANGED <<progVars, envVars, loopVars>>
    /\ UNCHANGED otherVars


\* (mutant) the loop test does not look at the flag
WhileTest_IgnoresQuitting ==
    /\ pc = "while_test"
    /\ pc' = "wait"
    /\ UNCHANGED <<progVars, sigVars, envVars, loopVars>>
    /\ UNCHANGED otherVars

\* ------------------------------------------------------- the main loop
\* while (!quitting): the flag is re-read on every test (the loop body
\* calls external functions, so the load cannot be hoisted).
WhileTest ==
    /\ pc = "while_test"
    /\ pc' = IF ~quitting THEN "wait" ELSE "release"
    /\ UNCHANGED <<progVars, sigVars, envVars, loopVars>>
    /\ UNCHANGED otherVars

\* gpiod_line_request_wait_edge_events(request, -1) is entered: from here
\* the thread sleeps in the kernel until an event is queued, a signal
\* handler runs, or the call fails.
WaitCall ==
    /\ pc = "wait"
    /\ request = "held"
    /\ pc' = "blocked"
    /\ UNCHANGED <<progVars, sigVars, envVars, loopVars>>
    /\ UNCHANGED otherVars

\* the wait returns 1: at least one edge event is queued
WaitReady ==
    /\ pc = "blocked"
    /\ kq # <<>>
    /\ r2' = 1
    /\ pc' = "check_wait"
    /\ UNCHANGED <<buffer, num_events, i, errno, last_ns, out, batches,
                   outLenAtRead, interrupted, teardown>>
    /\ UNCHANGED <<progVars, sigVars, envVars>>
    /\ UNCHANGED otherVars

\* the wait fails for a reason other than a signal: -1, errno != EINTR
WaitFails ==
    /\ pc = "blocked"
    /\ r2' = -1
    /\ errno' = "EIO"
    /\ pc' = "check_wait"
    /\ UNCHANGED <<buffer, num_events, i, last_ns, out, batches,
                   outLenAtRead, interrupted, teardown>>
    /\ UNCHANGED <<progVars, sigVars, envVars>>
    /\ UNCHANGED otherVars

\* mutant: the result is compared with 0 instead of < 0
WaitInterrupted_ZeroResult(r, e) == r = 0 /\ e = "EINTR"

\* (mutant) the interrupted wait is looked for under another errno
WaitInterrupted_WrongErrno(r, e) == r < 0 /\ e = "EAGAIN"

\* (mutant) every failed wait is taken for an interrupted one
WaitInterrupted_AnyError(r, e) == r < 0

\* r2 < 0 && errno == EINTR
WaitInterrupted(r, e) == r < 0 /\ e = "EINTR"

\* (mutant) built with NDEBUG: assert(r2 == 1) is compiled out
CheckWait_NoAssert ==
    /\ pc = "check_wait"
    /\ pc' = IF WaitInterrupted(r2, errno) THEN "release" ELSE "read"
    /\ UNCHANGED <<buffer, num_events, i, r2, errno, last_ns, out, batches,
                   outLenAtRead, interrupted, teardown>>
    /\ UNCHANGED <<progVars, sigVars, envVars>>
    /\ UNCHANGED otherVars

\* if (r2 < 0 && errno == EINTR) break; assert(r2 == 1)
CheckWait ==
    /\ pc = "check_wait"
    /\ IF WaitInterrupted(r2, errno)
          THEN pc' = "release"
          ELSE IF r2 = 1 THEN pc' = "read" ELSE Abort
    /\ UNCHANGED <<buffer, num_events, i, r2, errno, last_ns, out, batches,
                   outLenAtRead, interrupted, teardown>>
    /\ UNCHANGED <<progVars, sigVars, envVars>>
    /\ UNCHANGED otherVars

\* (mutant) the read ignores the capacity it is given
ReadCount_NoCapacity(q, capacity) == Len(q)

\* number of events one read returns: all that are queued, up to the capacity
ReadCount(q, capacity) == Min(Len(q), capacity)

\* num_events = gpiod_line_request_read_edge_events(request, events,
\* max_events): the buffer is overwritten from its start, or the read fails.
ReadEdgeEvents ==
    /\ pc = "read"
    /\ request = "held" /\ events = "live"
    /\ \/ /\ kq # <<>>
          /\ LET n == ReadCount(kq, max_events) IN
                /\ buffer' = SubSeq(kq, 1, n)
                /\ kq' = SubSeq(kq, n + 1, Len(kq))
                /\ num_events' = n
                /\ batches' = Append(batches, SubSeq(kq, 1, n))
                /\ outLenAtRead' = Len(out)
       \/ /\ num_events' = -1
          /\ UNCHANGED <<buffer, kq, batches, outLenAtRead>>
    /\ pc' = "check_read"
    /\ UNCHANGED <<i, r2, errno, last_ns, out, interrupted, teardown>>
    /\ UNCHANGED <<progVars, sigVars, gseq, lseq, clock, level>>
    /\ UNCHANGED otherVars

\* assert(num_events > 0); for (unsigned i = 0; ...
CheckRead ==
    /\ pc = "check_read"
    /\ IF num_events > 0 THEN pc' = "for" /\ i' = 0
                         ELSE Abort /\ i' = i
    /\ UNCHANGED <<buffer, num_events, r2, errno, last_ns, out, batches,
                   outLenAtRead, interrupted, teardown>>
    /\ UNCHANGED <<progVars, sigVars, envVars>>
    /\ UNCHANGED otherVars

\* mutant: the loop stops one event early
LoopContinues_OffByOne(idx, buf) == idx + 1 < Len(buf)

\* i < gpiod_edge_event_buffer_get_num_events(events)
LoopContinues(idx, buf) == idx < Len(buf)

\* mutant: the buffer is walked from its end
GetEvent_Reversed(buf, idx) == buf[Len(buf) - idx]

\* mutant: the index is ignored, the first event is returned every time
GetEvent_Stuck(buf, idx) == buf[1]

\* gpiod_edge_event_buffer_get_event(events, i)
GetEvent(buf, idx) == buf[idx + 1]

\* event_type == GPIOD_EDGE_EVENT_RISING_EDGE ? 1 : 0
PinVal(event) == IF event.event_type = "RISING_EDGE" THEN 1 ELSE 0

\* if (last_ns != 0)
HasDelta(last) == last # 0

\* mutant: the operands of the subtraction are swapped
Delta_Swapped(timestamp_ns, last) == (last - timestamp_ns) % Uint64Modulus

\* timestamp_ns - last_ns, in uint64_t
Delta(timestamp_ns, last) == (timestamp_ns - last) % Uint64Modulus

\* the line the two printf calls and the "\n" make for one event
EventLine(event, last) ==
    [kind         |-> "event",
     global_seqno |-> event.global_seqno,
     line_seqno   |-> event.line_seqno,
     pin_num      |-> event.line_offset,
     pin_val      |-> PinVal(event),
     timestamp_ns |-> event.timestamp_ns,
     has_delta    |-> HasDelta(last),
     delta        |-> IF HasDelta(last)
                         THEN Delta(event.timestamp_ns, last) ELSE 0]

\* mutant: the index advances by two
NextIndex_Skip(idx) == idx + 2

\* i++
NextIndex(idx) == idx + 1

\* mutant: the blank line is printed inside the for loop, after every event
ReportEvent_SeparatorInside ==
    /\ pc = "for"
    /\ events = "live"
    /\ LoopContinues(i, buffer)
    /\ LET event == GetEvent(buffer, i) IN
          /\ out' = out \o <<EventLine(event, last_ns), [kind |-> "separator"]>>
          /\ last_ns' = event.timestamp_ns
    /\ i' = NextIndex(i)
    /\ pc' = "for"
    /\ UNCHANGED <<buffer, num_events, r2, errno, batches, outLenAtRead,
                   interrupted, teardown>>
    /\ UNCHANGED <<progVars, sigVars, envVars>>
    /\ UNCHANGED otherVars

\* one iteration of the for loop: print the event, update last_ns
ReportEvent ==
    /\ pc = "for"
    /\ events = "live"
    /\ LoopContinues(i, buffer)
    /\ LET event == GetEvent(buffer, i) IN
          /\ out' = Append(out, EventLine(event, last_ns))
          /\ last_ns' = event.timestamp_ns
    /\ i' = NextIndex(i)
    /\ pc' = "for"
    /\ UNCHANGED <<buffer, num_events, r2, errno, batches, outLenAtRead,
                   interrupted, teardown>>
    /\ UNCHANGED <<progVars, sigVars, envVars>>
    /\ UNCHANGED otherVars

\* (mutant) after a batch main reads again without waiting
PrintSeparator_ToRead ==
    /\ pc = "for"
    /\ ~LoopContinues(i, buffer)
    /\ out' = Append(out, [kind |-> "separator"])
    /\ pc' = "read"
    /\ UNCHANGED <<buffer, num_events, i, r2, errno, last_ns, batches,
                   outLenAtRead, interrupted, teardown>>
    /\ UNCHANGED <<progVars, sigVars, envVars>>
    /\ UNCHANGED otherVars

\* the for loop ends; printf("\n") groups the events of one read call
PrintSeparator ==
    /\ pc = "for"
    /\ ~LoopContinues(i, buffer)
    /\ out' = Append(out, [kind |-> "separator"])
    /\ pc' = "while_test"
    /\ UNCHANGED <<buffer, num_events, i, r2, errno, last_ns, batches,
                   outLenAtRead, interrupted, teardown>>
    /\ UNCHANGED <<progVars, sigVars, envVars>>
    /\ UNCHANGED otherVars

\* ------------------------------------------------------------- teardown
\* gpiod_line_request_release(request); request = nullptr
Release ==
    /\ pc = "release"
    /\ request' = "released"
    /\ teardown' = Append(teardown, "release")
    /\ pc' = "close"
    /\ UNCHANGED <<events, settings, line_config, request_config, chip>>
    /\ UNCHANGED <<buffer, num_events, i, r2, errno, last_ns, out, batches,
                   outLenAtRead, interrupted>>
    /\ UNCHANGED <<sigVars, envVars>>
    /\ UNCHANGED otherVars

\* gpiod_chip_close(chip); chip = nullptr
CloseChip ==
    /\ pc = "close"
    /\ chip' = "closed"
    /\ teardown' = Append(teardown, "close")
    /\ pc' = "return"
    /\ UNCHANGED <<events, settings, line_config, request_config, request>>
    /\ UNCHANGED <<buffer, num_events, i, r2, errno, last_ns, out, batches,
                   outLenAtRead, interrupted>>
    /\ UNCHANGED <<sigVars, envVars>>
    /\ UNCHANGED otherVars

\* return 0
Return ==
    /\ pc = "return"
    /\ pc' = "done"
    /\ UNCHANGED <<progVars, sigVars, envVars, loopVars>>
    /\ exit_status' = 0
    /\ UNCHANGED <<prog, simpleVars>>

\* ---------------------------------------------------------- environment
\* static void ctrl_c_handler(int notused) { quitting = true; }
ctrl_c_handler == quitting' = TRUE

\* The operator sends SIGINT.  Before signal() has installed the handler
\* the default action ends the process.  Afterwards the handler runs, and
\* a thread sleeping in the wait is woken with -1 and errno EINTR; a signal
\* handled at any other point leaves main where it is.
Sigint ==
    /\ pc \notin Terminated
    /\ handler' = handler
    /\ IF ~handler
          THEN /\ pc' = "killed"
               /\ UNCHANGED <<quitting, r2, errno, interrupted>>
          ELSE /\ ctrl_c_handler
               /\ IF pc = "blocked"
                     THEN /\ r2' = -1 /\ errno' = "EINTR"
                          /\ interrupted' = TRUE
                          /\ pc' = "check_wait"
                     ELSE UNCHANGED <<pc, r2, errno, interrupted>>
    /\ UNCHANGED <<buffer, num_events, i, last_ns, out, batches,
                   outLenAtRead, teardown>>
    /\ UNCHANGED <<progVars, envVars>>
    /\ UNCHANGED otherVars

\* The controller detects an edge on one of the requested lines (both edges
\* are detected: the level of the line flips) and queues the event: sequence
\* numbers count up in the order of detection, and the timestamp is the
\* monotonic event clock, which never goes back (here it has advanced by
\* at most one unit since the event before).
KernelEvent ==
    /\ prog = "input_events"
    /\ pc \notin Terminated
    /\ request = "held"
    /\ gseq < MaxKernelEvents
    /\ \E o \in OffsetSet, ts \in clock..Min(clock + 1, MaxClock) :
          /\ clock' = ts
          /\ level' = [level EXCEPT ![o] = 1 - @]
          /\ gseq' = gseq + 1
          /\ lseq' = [lseq EXCEPT ![o] = @ + 1]
          /\ kq' = Append(kq, [global_seqno |-> gseq + 1,
                               line_seqno   |-> lseq[o] + 1,
                               line_offset  |-> o,
                               event_type   |-> IF level[o] = 0
                                                   THEN "RISING_EDGE"
                                                   ELSE "FALLING_EDGE",
                               timestamp_ns |-> ts])
    /\ UNCHANGED <<pc, progVars, sigVars, loopVars>>
    /\ UNCHANGED otherVars

\* A bouncing contact: the controller detects n edges on one line within one
\* tick of the event clock and queues them all before main runs again.  The
\* first burst is one event short of the capacity of the events buffer,
\* exactly the capacity, or one event more; after it the edges come singly.
BurstEvent(k) ==
    [global_seqno |-> gseq + k,
     line_seqno   |-> lseq[a_gpio_num] + k,
     line_offset  |-> a_gpio_num,
     event_type   |-> IF (level[a_gpio_num] + k) % 2 = 1
                         THEN "RISING_EDGE"
                         ELSE "FALLING_EDGE",
     timestamp_ns |-> clock]

KernelBurst ==
    /\ prog = "input_events"
    /\ pc \notin Terminated
    /\ request = "held"
    /\ \E n \in IF gseq = 0
                THEN {max_events - 1, max_events, max_events + 1}
                ELSE {1} :
          /\ gseq + n <= max_events + MaxOverflow
          /\ level' = [level EXCEPT ![a_gpio_num] = (@ + n) % 2]
          /\ gseq' = gseq + n
          /\ lseq' = [lseq EXCEPT ![a_gpio_num] = @ + n]
          /\ kq' = kq \o [k \in 1..n |-> BurstEvent(k)]
    /\ UNCHANGED <<clock, pc, progVars, sigVars, loopVars>>
    /\ UNCHANGED otherVars

\* ============================================================ input_simple
\* input_simple.cpp: the same two lines as inputs without edge detection;
\* the loop reads their values every millisecond and prints the changes.

\* gpiod_line_settings_new(); assert; the four gpiod_line_settings_set_* calls
IsSettingsNew ==
    /\ pc = "is_settings_new"
    /\ \E ok \in BOOLEAN :
          IF ok THEN settings' = "live" /\ pc' = "is_line_config_new"
                ELSE settings' = settings /\ Abort
    /\ UNCHANGED <<prog, exit_status, values_old, values_new, code,
                   written, quitting, handler, line_config, request_config,
                   chip, request, level, i, out, teardown>>
    /\ UNCHANGED ieVars

\* gpiod_line_config_new(); assert(line_config != nullptr)
IsLineConfigNew ==
    /\ pc = "is_line_config_new"
    /\ \E ok \in BOOLEAN :
          IF ok THEN line_config' = "live" /\ pc' = "is_add_line_settings"
                ELSE line_config' = line_config /\ Abort
    /\ UNCHANGED <<prog, exit_status, values_old, values_new, code,
                   written, quitting, handler, settings, request_config,
                   chip, request, level, i, out, teardown>>
    /\ UNCHANGED ieVars

\* r1 = gpiod_line_config_add_line_settings(...); assert(r1 == 0)
IsAddLineSettings ==
    /\ pc = "is_add_line_settings"
    /\ settings = "live" /\ line_config = "live"
    /\ \E r1 \in {0, -1} :
          IF r1 = 0 THEN pc' = "is_settings_free" ELSE Abort
    /\ UNCHANGED <<prog, exit_status, values_old, values_new, code,
                   written, quitting, handler, settings, line_config,
                   request_config, chip, request, level, i, out, teardown>>
    /\ UNCHANGED ieVars

\* gpiod_line_settings_free(settings); settings = nullptr
IsSettingsFree ==
    /\ pc = "is_settings_free"
    /\ settings' = "freed"
    /\ pc' = "is_chip_open"
    /\ UNCHANGED <<prog, exit_status, values_old, values_new, code,
                   written, quitting, handler, line_config, request_config,
                   chip, request, level, i, out, teardown>>
    /\ UNCHANGED ieVars

\* chip = gpiod_chip_open(chip_path); assert(chip != nullptr)
IsChipOpen ==
    /\ pc = "is_chip_open"
    /\ \E ok \in BOOLEAN :
          IF ok THEN chip' = "open" /\ pc' = "is_request_config_new"
                ELSE chip' = chip /\ Abort
    /\ UNCHANGED <<prog, exit_status, values_old, values_new, code,
                   written, quitting, handler, settings, line_config,
                   request_config, request, level, i, out, teardown>>
    /\ UNCHANGED ieVars

\* gpiod_request_config_new(); assert; gpiod_request_config_set_consumer
IsRequestConfigNew ==
    /\ pc = "is_request_config_new"
    /\ \E ok \in BOOLEAN :
          IF ok THEN request_config' = "live" /\ pc' = "is_request_lines"
                ELSE request_config' = request_config /\ Abort
    /\ UNCHANGED <<prog, exit_status, values_old, values_new, code,
                   written, quitting, handler, settings, line_config, chip,
                   request, level, i, out, teardown>>
    /\ UNCHANGED ieVars

\* request = gpiod_chip_request_lines(chip, request_config, line_config);
\* assert(request != nullptr)
IsRequestLines ==
    /\ pc = "is_request_lines"
    /\ chip = "open" /\ request_config = "live" /\ line_config = "live"
    /\ \E ok \in BOOLEAN :
          IF ok THEN request' = "held" /\ pc' = "is_request_config_free"
                ELSE request' = request /\ Abort
    /\ UNCHANGED <<prog, exit_status, values_old, values_new, code,
                   written, quitting, handler, settings, line_config,
                   request_config, chip, level, i, out, teardown>>
    /\ UNCHANGED ieVars

\* gpiod_request_config_free(request_config); request_config = nullptr
IsRequestConfigFree ==
    /\ pc = "is_request_config_free"
    /\ request_config' = "freed"
    /\ pc' = "is_line_config_free"
    /\ UNCHANGED <<prog, exit_status, values_old, values_new, code,
                   written, quitting, handler, settings, line_config, chip,
                   request, level, i, out, teardown>>
    /\ UNCHANGED ieVars

\* gpiod_line_config_free(line_config); line_config = nullptr
IsLineConfigFree ==
    /\ pc = "is_line_config_free"
    /\ line_config' = "freed"
    /\ pc' = "is_print_debounce"
    /\ UNCHANGED <<prog, exit_status, values_old, values_new, code,
                   written, quitting, handler, settings, request_config,
                   chip, request, level, i, out, teardown>>
    /\ UNCHANGED ieVars

\* printf("debounce time = %lu usec\n", debounce_us)
IsPrintDebounce ==
    /\ pc = "is_print_debounce"
    /\ out' = Append(out, [kind |-> "banner"])
    /\ pc' = "is_signal"
    /\ UNCHANGED <<prog, exit_status, values_old, values_new, code,
                   written, quitting, handler, settings, line_config,
                   request_config, chip, request, level, i, teardown>>
    /\ UNCHANGED ieVars

\* signal(SIGINT, ctrl_c_handler)
IsSignalInstall ==
    /\ pc = "is_signal"
    /\ handler' = TRUE
    /\ pc' = "is_get_values_old"
    /\ UNCHANGED <<prog, exit_status, values_old, values_new, code,
                   written, quitting, settings, line_config, request_config,
                   chip, request, level, i, out, teardown>>
    /\ UNCHANGED ieVars

\* gpiod_line_request_get_values: the current value of each requested line,
\* in the order of the offsets
GetValues == [k \in 1..gpio_pin_cnt |-> level[offsets[k]]]

\* r2 = gpiod_line_request_get_values(request, values_old); assert(r2 == 0)
IsGetValuesOld ==
    /\ pc = "is_get_values_old"
    /\ request = "held"
    /\ \E ret \in {0, -1} :
          IF ret = 0 THEN values_old' = GetValues /\ pc' = "is_while_test"
                     ELSE values_old' = values_old /\ Abort
    /\ UNCHANGED <<prog, exit_status, values_new, code, written, quitting,
                   handler, settings, line_config, request_config, chip,
                   request, level, i, out, teardown>>
    /\ UNCHANGED ieVars

\* while (!quitting)
IsWhileTest ==
    /\ pc = "is_while_test"
    /\ pc' = IF ~quitting THEN "is_get_values_new" ELSE "is_release"
    /\ UNCHANGED <<prog, exit_status, values_old, values_new, code,
                   written, quitting, handler, settings, line_config,
                   request_config, chip, request, level, i, out, teardown>>
    /\ UNCHANGED ieVars

\* r3 = gpiod_line_request_get_values(request, values_new); assert(r3 == 0);
\* for (unsigned i = 0; ...
IsGetValuesNew ==
    /\ pc = "is_get_values_new"
    /\ request = "held"
    /\ \E r3 \in {0, -1} :
          IF r3 = 0 THEN values_new' = GetValues /\ i' = 0 /\ pc' = "is_for"
                    ELSE values_new' = values_new /\ i' = i /\ Abort
    /\ UNCHANGED <<prog, exit_status, values_old, code, written, quitting,
                   handler, settings, line_config, request_config, chip,
                   request, level, out, teardown>>
    /\ UNCHANGED ieVars

\* (mutant) the comparison always looks at the first pin
ValueChanged_FirstPinOnly(old, new, idx) == old[1] # new[1]

\* values_old[i] != values_new[i]
ValueChanged(old, new, idx) == old[idx + 1] # new[idx + 1]

\* printf("pin %u = %d\n", offsets[i], values_new[i] == ACTIVE ? 1 : 0)
PinLine(idx, new) ==
    [kind |-> "pin", pin_num |-> offsets[idx + 1],
     pin_val |-> IF new[idx + 1] = 1 THEN 1 ELSE 0]

\* one pass of for (i < 2): a changed value is printed and remembered
IsCompare ==
    /\ pc = "is_for"
    /\ i < gpio_pin_cnt
    /\ IF ValueChanged(values_old, values_new, i)
          THEN /\ out' = Append(out, PinLine(i, values_new))
               /\ values_old' = [values_old EXCEPT ![i + 1] = values_new[i + 1]]
          ELSE UNCHANGED <<out, values_old>>
    /\ i' = i + 1
    /\ pc' = "is_for"
    /\ UNCHANGED <<prog, exit_status, values_new, code, written, quitting,
                   handler, settings, line_config, request_config, chip,
                   request, level, teardown>>
    /\ UNCHANGED ieVars

\* the for loop ends
IsForEnd ==
    /\ pc = "is_for"
    /\ ~(i < gpio_pin_cnt)
    /\ pc' = "is_usleep"
    /\ UNCHANGED <<prog, exit_status, values_old, values_new, code,
                   written, quitting, handler, settings, line_config,
                   request_config, chip, request, level, i, out, teardown>>
    /\ UNCHANGED ieVars

\* usleep(1000): returns after the time or when a signal handler has run
IsUsleep ==
    /\ pc = "is_usleep"
    /\ pc' = "is_while_test"
    /\ UNCHANGED <<prog, exit_status, values_old, values_new, code,
                   written, quitting, handler, settings, line_config,
                   request_config, chip, request, level, i, out, teardown>>
    /\ UNCHANGED ieVars

\* (mutant) the release is made inside the loop
IsRelease_InLoop ==
    /\ pc = "is_release"
    /\ request' = "released"
    /\ teardown' = Append(teardown, "release")
    /\ pc' = "is_while_test"
    /\ UNCHANGED <<prog, exit_status, values_old, values_new, code,
                   written, quitting, handler, settings, line_config,
                   request_config, chip, level, i, out>>
    /\ UNCHANGED ieVars

\* gpiod_line_request_release(request); request = nullptr
IsRelease ==
    /\ pc = "is_release"
    /\ request' = "released"
    /\ teardown' = Append(teardown, "release")
    /\ pc' = "is_close"
    /\ UNCHANGED <<prog, exit_status, values_old, values_new, code,
                   written, quitting, handler, settings, line_config,
                   request_config, chip, level, i, out>>
    /\ UNCHANGED ieVars

\* gpiod_chip_close(chip); chip = nullptr
IsCloseChip ==
    /\ pc = "is_close"
    /\ chip' = "closed"
    /\ teardown' = Append(teardown, "close")
    /\ pc' = "is_return"
    /\ UNCHANGED <<prog, exit_status, values_old, values_new, code,
                   written, quitting, handler, settings, line_config,
                   request_config, request, level, i, out>>
    /\ UNCHANGED ieVars

\* return 0
IsReturn ==
    /\ pc = "is_return"
    /\ exit_status' = 0
    /\ pc' = "done"
    /\ UNCHANGED <<prog, values_old, values_new, code, written, quitting,
                   handler, settings, line_config, request_config, chip,
                   request, level, i, out, teardown>>
    /\ UNCHANGED ieVars

\* the level of one of the input lines changes (the environment); the bound
\* stops the changes once MaxPrinted lines have been printed
LineChange ==
    /\ prog = "input_simple"
    /\ pc \notin Terminated
    /\ request = "held"
    /\ Len(out) < MaxPrinted
    /\ \E o \in OffsetSet : level' = [level EXCEPT ![o] = 1 - @]
    /\ UNCHANGED <<pc, prog, exit_status, values_old, values_new, code, written,
                   quitting, handler, settings, line_config, request_config,
                   chip, request, i, out, teardown>>
    /\ UNCHANGED ieVars

IsStep ==
    \/ IsSettingsNew \/ IsLineConfigNew \/ IsAddLineSettings \/ IsSettingsFree
    \/ IsChipOpen \/ IsRequestConfigNew \/ IsRequestLines
    \/ IsRequestConfigFree \/ IsLineConfigFree \/ IsPrintDebounce
    \/ IsSignalInstall \/ IsGetValuesOld \/ IsWhileTest \/ IsGetValuesNew
    \/ IsCompare \/ IsForEnd \/ IsUsleep \/ IsRelease \/ IsCloseChip
    \/ IsReturn

\* the lines of the request are driven with the given values, in the order
\* of the offsets
Drive(vals) == [o \in OffsetSet |-> IF o = lsb_gpio_num THEN vals[1] ELSE vals[2]]

\* init_values: lsb active, msb inactive
init_values == <<1, 0>>

\* code_values[code_max][gpio_pin_cnt]: the lsb is the first value
code_values == << <<0, 0>>, <<1, 0>>, <<0, 1>>, <<1, 1>> >>

\* ============================================================ output_simple
\* output_simple.cpp: two output lines that count 0, 1, 2, 3 once a second.

\* gpiod_line_config_new(); assert(line_config != nullptr)
OsLineConfigNew ==
    /\ pc = "os_line_config_new"
    /\ \E ok \in BOOLEAN :
          IF ok THEN line_config' = "live" /\ pc' = "os_settings_new"
                ELSE line_config' = line_config /\ Abort
    /\ UNCHANGED <<prog, exit_status, values_old, values_new, code,
                   written, quitting, handler, settings, request_config,
                   chip, request, level, i, out, teardown>>
    /\ UNCHANGED ieVars

\* gpiod_line_settings_new(); assert; direction output, drive push-pull
OsSettingsNew ==
    /\ pc = "os_settings_new"
    /\ \E ok \in BOOLEAN :
          IF ok THEN settings' = "live" /\ pc' = "os_add_line_settings"
                ELSE settings' = settings /\ Abort
    /\ UNCHANGED <<prog, exit_status, values_old, values_new, code,
                   written, quitting, handler, line_config, request_config,
                   chip, request, level, i, out, teardown>>
    /\ UNCHANGED ieVars

\* r1 = gpiod_line_config_add_line_settings(...); assert(r1 == 0)
OsAddLineSettings ==
    /\ pc = "os_add_line_settings"
    /\ settings = "live" /\ line_config = "live"
    /\ \E r1 \in {0, -1} :
          IF r1 = 0 THEN pc' = "os_settings_free" ELSE Abort
    /\ UNCHANGED <<prog, exit_status, values_old, values_new, code,
                   written, quitting, handler, settings, line_config,
                   request_config, chip, request, level, i, out, teardown>>
    /\ UNCHANGED ieVars

\* gpiod_line_settings_free(settings); settings = nullptr
OsSettingsFree ==
    /\ pc = "os_settings_free"
    /\ settings' = "freed"
    /\ pc' = "os_set_output_values"
    /\ UNCHANGED <<prog, exit_status, values_old, values_new, code,
                   written, quitting, handler, line_config, request_config,
                   chip, request, level, i, out, teardown>>
    /\ UNCHANGED ieVars

\* r2 = gpiod_line_config_set_output_values(line_config, ...); assert(r2 == 0)
OsSetOutputValues ==
    /\ pc = "os_set_output_values"
    /\ line_config = "live"
    /\ \E ret \in {0, -1} :
          IF ret = 0 THEN pc' = "os_chip_open" ELSE Abort
    /\ UNCHANGED <<prog, exit_status, values_old, values_new, code,
                   written, quitting, handler, settings, line_config,
                   request_config, chip, request, level, i, out, teardown>>
    /\ UNCHANGED ieVars

\* chip = gpiod_chip_open(chip_path); assert(chip != nullptr)
OsChipOpen ==
    /\ pc = "os_chip_open"
    /\ \E ok \in BOOLEAN :
          IF ok THEN chip' = "open" /\ pc' = "os_request_config_new"
                ELSE chip' = chip /\ Abort
    /\ UNCHANGED <<prog, exit_status, values_old, values_new, code,
                   written, quitting, handler, settings, line_config,
                   request_config, request, level, i, out, teardown>>
    /\ UNCHANGED ieVars

\* gpiod_request_config_new(); assert; gpiod_request_config_set_consumer
OsRequestConfigNew ==
    /\ pc = "os_request_config_new"
    /\ \E ok \in BOOLEAN :
          IF ok THEN request_config' = "live" /\ pc' = "os_request_lines"
                ELSE request_config' = request_config /\ Abort
    /\ UNCHANGED <<prog, exit_status, values_old, values_new, code,
                   written, quitting, handler, settings, line_config, chip,
                   request, level, i, out, teardown>>
    /\ UNCHANGED ieVars

\* request = gpiod_chip_request_lines(chip, request_config, line_config);
\* assert(request != nullptr); the lines are driven with the initial values
OsRequestLines ==
    /\ pc = "os_request_lines"
    /\ chip = "open" /\ request_config = "live" /\ line_config = "live"
    /\ \E ok \in BOOLEAN :
          IF ok THEN request' = "held" /\ pc' = "os_request_config_free"
                     /\ level' = Drive(init_values)
                ELSE request' = request /\ Abort /\ level' = level
    /\ UNCHANGED <<prog, exit_status, values_old, values_new, code,
                   written, quitting, handler, settings, line_config,
                   request_config, chip, i, out, teardown>>
    /\ UNCHANGED ieVars

\* gpiod_request_config_free(request_config); request_config = nullptr
OsRequestConfigFree ==
    /\ pc = "os_request_config_free"
    /\ request_config' = "freed"
    /\ pc' = "os_line_config_free"
    /\ UNCHANGED <<prog, exit_status, values_old, values_new, code,
                   written, quitting, handler, settings, line_config, chip,
                   request, level, i, out, teardown>>
    /\ UNCHANGED ieVars

\* gpiod_line_config_free(line_config); line_config = nullptr
OsLineConfigFree ==
    /\ pc = "os_line_config_free"
    /\ line_config' = "freed"
    /\ pc' = "os_signal"
    /\ UNCHANGED <<prog, exit_status, values_old, values_new, code,
                   written, quitting, handler, settings, request_config,
                   chip, request, level, i, out, teardown>>
    /\ UNCHANGED ieVars

\* int code = 0; signal(SIGINT, ctrl_c_handler)
OsSignalInstall ==
    /\ pc = "os_signal"
    /\ code' = 0
    /\ handler' = TRUE
    /\ pc' = "os_while_test"
    /\ UNCHANGED <<prog, exit_status, values_old, values_new, written,
                   quitting, settings, line_config, request_config, chip,
                   request, level, i, out, teardown>>
    /\ UNCHANGED ieVars

\* while (!quitting); the bound stops the loop after MaxWrites writes
OsWhileTest ==
    /\ pc = "os_while_test"
    /\ ~quitting => Len(written) < MaxWrites
    /\ pc' = IF ~quitting THEN "os_sleep" ELSE "os_set_final"
    /\ UNCHANGED <<prog, exit_status, values_old, values_new, code,
                   written, quitting, handler, settings, line_config,
                   request_config, chip, request, level, i, out, teardown>>
    /\ UNCHANGED ieVars

\* sleep(1): returns after the time or when a signal handler has run
OsSleep ==
    /\ pc = "os_sleep"
    /\ pc' = "os_set"
    /\ UNCHANGED <<prog, exit_status, values_old, values_new, code,
                   written, quitting, handler, settings, line_config,
                   request_config, chip, request, level, i, out, teardown>>
    /\ UNCHANGED ieVars

\* gpiod_line_request_set_values(request, code_values[code]): the result is not looked at
OsSetValues ==
    /\ pc = "os_set"
    /\ request = "held"
    /\ \E ret \in {0, -1} :
          /\ written' = Append(written, [values |-> code_values[code + 1], ret |-> ret])
          /\ level' = IF ret = 0 THEN Drive(code_values[code + 1]) ELSE level
    /\ pc' = "os_next_code"
    /\ UNCHANGED <<prog, exit_status, values_old, values_new, code,
                   quitting, handler, settings, line_config, request_config,
                   chip, request, i, out, teardown>>
    /\ UNCHANGED ieVars

\* (mutant) the wrap comes one step late
NextCode_LateWrap(c) == IF c + 1 > code_max THEN 0 ELSE c + 1

\* if (++code >= code_max) code = 0
NextCode(c) == IF c + 1 >= code_max THEN 0 ELSE c + 1

\* the code for the next pass of the loop
OsNextCode ==
    /\ pc = "os_next_code"
    /\ code' = NextCode(code)
    /\ pc' = "os_while_test"
    /\ UNCHANGED <<prog, exit_status, values_old, values_new, written,
                   quitting, handler, settings, line_config, request_config,
                   chip, request, level, i, out, teardown>>
    /\ UNCHANGED ieVars

\* gpiod_line_request_set_values(request, code_values[0]) after the loop
OsSetValuesFinal ==
    /\ pc = "os_set_final"
    /\ request = "held"
    /\ \E ret \in {0, -1} :
          /\ written' = Append(written, [values |-> code_values[1], ret |-> ret])
          /\ level' = IF ret = 0 THEN Drive(code_values[1]) ELSE level
    /\ pc' = "os_release"
    /\ UNCHANGED <<prog, exit_status, values_old, values_new, code,
                   quitting, handler, settings, line_config, request_config,
                   chip, request, i, out, teardown>>
    /\ UNCHANGED ieVars

\* (mutant) the request is not released before the chip is closed
OsRelease_Skipped ==
    /\ pc = "os_release"
    /\ pc' = "os_close"
    /\ UNCHANGED <<request, teardown>>
    /\ UNCHANGED <<prog, exit_status, values_old, values_new, code,
                   written, quitting, handler, settings, line_config,
                   request_config, chip, level, i, out>>
    /\ UNCHANGED ieVars

\* gpiod_line_request_release(request); request = nullptr
OsRelease ==
    /\ pc = "os_release"
    /\ request' = "released"
    /\ teardown' = Append(teardown, "release")
    /\ pc' = "os_close"
    /\ UNCHANGED <<prog, exit_status, values_old, values_new, code,
                   written, quitting, handler, settings, line_config,
                   request_config, chip, level, i, out>>
    /\ UNCHANGED ieVars

\* gpiod_chip_close(chip); chip = nullptr
OsCloseChip ==
    /\ pc = "os_close"
    /\ chip' = "closed"
    /\ teardown' = Append(teardown, "close")
    /\ pc' = "os_return"
    /\ UNCHANGED <<prog, exit_status, values_old, values_new, code,
                   written, quitting, handler, settings, line_config,
                   request_config, request, level, i, out>>
    /\ UNCHANGED ieVars

\* return 0
OsReturn ==
    /\ pc = "os_return"
    /\ exit_status' = 0
    /\ pc' = "done"
    /\ UNCHANGED <<prog, values_old, values_new, code, written, quitting,
                   handler, settings, line_config, request_config, chip,
                   request, level, i, out, teardown>>
    /\ UNCHANGED ieVars

OsStep ==
    \/ OsLineConfigNew \/ OsSettingsNew \/ OsAddLineSettings
    \/ OsSettingsFree \/ OsSetOutputValues \/ OsChipOpen
    \/ OsRequestConfigNew \/ OsRequestLines \/ OsRequestConfigFree
    \/ OsLineConfigFree \/ OsSignalInstall \/ OsWhileTest \/ OsSleep
    \/ OsSetValues \/ OsNextCode \/ OsSetValuesFinal \/ OsRelease
    \/ OsCloseChip \/ OsReturn

\* the one line of the request is driven with the given value
Drive1(vals) == [level EXCEPT ![gpio_num] = vals[1]]

\* init_value: inactive
init_value == <<0>>

\* code_values[2]: inactive, active
code_values1 == << <<0>>, <<1>> >>

\* ============================================================ output1_simple
\* output1_simple.cpp: one output line that toggles once a second; the chip
\* is closed as soon as the lines are requested.

\* gpiod_line_config_new(); assert(line_config != nullptr)
O1LineConfigNew ==
    /\ pc = "o1_line_config_new"
    /\ \E ok \in BOOLEAN :
          IF ok THEN line_config' = "live" /\ pc' = "o1_settings_new"
                ELSE line_config' = line_config /\ Abort
    /\ UNCHANGED <<prog, exit_status, values_old, values_new, code,
                   written, quitting, handler, settings, request_config,
                   chip, request, level, i, out, teardown>>
    /\ UNCHANGED ieVars

\* gpiod_line_settings_new(); assert; direction output, drive push-pull
O1SettingsNew ==
    /\ pc = "o1_settings_new"
    /\ \E ok \in BOOLEAN :
          IF ok THEN settings' = "live" /\ pc' = "o1_add_line_settings"
                ELSE settings' = settings /\ Abort
    /\ UNCHANGED <<prog, exit_status, values_old, values_new, code,
                   written, quitting, handler, line_config, request_config,
                   chip, request, level, i, out, teardown>>
    /\ UNCHANGED ieVars

\* r1 = gpiod_line_config_add_line_settings(...); assert(r1 == 0)
O1AddLineSettings ==
    /\ pc = "o1_add_line_settings"
    /\ settings = "live" /\ line_config = "live"
    /\ \E r1 \in {0, -1} :
          IF r1 = 0 THEN pc' = "o1_settings_free" ELSE Abort
    /\ UNCHANGED <<prog, exit_status, values_old, values_new, code,
                   written, quitting, handler, settings, line_config,
                   request_config, chip, request, level, i, out, teardown>>
    /\ UNCHANGED ieVars

\* gpiod_line_settings_free(settings); settings = nullptr
O1SettingsFree ==
    /\ pc = "o1_settings_free"
    /\ settings' = "freed"
    /\ pc' = "o1_set_output_values"
    /\ UNCHANGED <<prog, exit_status, values_old, values_new, code,
                   written, quitting, handler, line_config, request_config,
                   chip, request, level, i, out, teardown>>
    /\ UNCHANGED ieVars

\* r2 = gpiod_line_config_set_output_values(line_config, ...); assert(r2 == 0)
O1SetOutputValues ==
    /\ pc = "o1_set_output_values"
    /\ line_config = "live"
    /\ \E ret \in {0, -1} :
          IF ret = 0 THEN pc' = "o1_chip_open" ELSE Abort
    /\ UNCHANGED <<prog, exit_status, values_old, values_new, code,
                   written, quitting, handler, settings, line_config,
                   request_config, chip, request, level, i, out, teardown>>
    /\ UNCHANGED ieVars

\* chip = gpiod_chip_open(chip_path); assert(chip != nullptr)
O1ChipOpen ==
    /\ pc = "o1_chip_open"
    /\ \E ok \in BOOLEAN :
          IF ok THEN chip' = "open" /\ pc' = "o1_request_config_new"
                ELSE chip' = chip /\ Abort
    /\ UNCHANGED <<prog, exit_status, values_old, values_new, code,
                   written, quitting, handler, settings, line_config,
                   request_config, request, level, i, out, teardown>>
    /\ UNCHANGED ieVars

\* gpiod_request_config_new(); assert; gpiod_request_config_set_consumer
O1RequestConfigNew ==
    /\ pc = "o1_request_config_new"
    /\ \E ok \in BOOLEAN :
          IF ok THEN request_config' = "live" /\ pc' = "o1_request_lines"
                ELSE request_config' = request_config /\ Abort
    /\ UNCHANGED <<prog, exit_status, values_old, values_new, code,
                   written, quitting, handler, settings, line_config, chip,
                   request, level, i, out, teardown>>
    /\ UNCHANGED ieVars

\* request = gpiod_chip_request_lines(chip, request_config, line_config);
\* assert(request != nullptr); the lines are driven with the initial values
O1RequestLines ==
    /\ pc = "o1_request_lines"
    /\ chip = "open" /\ request_config = "live" /\ line_config = "live"
    /\ \E ok \in BOOLEAN :
          IF ok THEN request' = "held" /\ pc' = "o1_request_config_free"
                     /\ level' = Drive1(init_value)
                ELSE request' = request /\ Abort /\ level' = level
    /\ UNCHANGED <<prog, exit_status, values_old, values_new, code,
                   written, quitting, handler, settings, line_config,
                   request_config, chip, i, out, teardown>>
    /\ UNCHANGED ieVars

\* gpiod_request_config_free(request_config); request_config = nullptr
O1RequestConfigFree ==
    /\ pc = "o1_request_config_free"
    /\ request_config' = "freed"
    /\ pc' = "o1_line_config_free"
    /\ UNCHANGED <<prog, exit_status, values_old, values_new, code,
                   written, quitting, handler, settings, line_config, chip,
                   request, level, i, out, teardown>>
    /\ UNCHANGED ieVars

\* gpiod_line_config_free(line_config); line_config = nullptr
O1LineConfigFree ==
    /\ pc = "o1_line_config_free"
    /\ line_config' = "freed"
    /\ pc' = "o1_close"
    /\ UNCHANGED <<prog, exit_status, values_old, values_new, code,
                   written, quitting, handler, settings, request_config,
                   chip, request, level, i, out, teardown>>
    /\ UNCHANGED ieVars

\* gpiod_chip_close(chip); chip = nullptr, with the request still held
O1CloseChip ==
    /\ pc = "o1_close"
    /\ chip' = "closed"
    /\ teardown' = Append(teardown, "close")
    /\ pc' = "o1_signal"
    /\ UNCHANGED <<prog, exit_status, values_old, values_new, code,
                   written, quitting, handler, settings, line_config,
                   request_config, request, level, i, out>>
    /\ UNCHANGED ieVars

\* int code = 0; signal(SIGINT, ctrl_c_handler)
O1SignalInstall ==
    /\ pc = "o1_signal"
    /\ code' = 0
    /\ handler' = TRUE
    /\ pc' = "o1_while_test"
    /\ UNCHANGED <<prog, exit_status, values_old, values_new, written,
                   quitting, settings, line_config, request_config, chip,
                   request, level, i, out, teardown>>
    /\ UNCHANGED ieVars

\* while (!quitting); the bound stops the loop after MaxWrites writes
O1WhileTest ==
    /\ pc = "o1_while_test"
    /\ ~quitting => Len(written) < MaxWrites
    /\ pc' = IF ~quitting THEN "o1_sleep" ELSE "o1_set_final"
    /\ UNCHANGED <<prog, exit_status, values_old, values_new, code,
                   written, quitting, handler, settings, line_config,
                   request_config, chip, request, level, i, out, teardown>>
    /\ UNCHANGED ieVars

\* sleep(1): returns after the time or when a signal handler has run
O1Sleep ==
    /\ pc = "o1_sleep"
    /\ pc' = "o1_set"
    /\ UNCHANGED <<prog, exit_status, values_old, values_new, code,
                   written, quitting, handler, settings, line_config,
                   request_config, chip, request, level, i, out, teardown>>
    /\ UNCHANGED ieVars

\* gpiod_line_request_set_value(request, gpio_num, code_values[code]): the result is not looked at
O1SetValue ==
    /\ pc = "o1_set"
    /\ request = "held"
    /\ \E ret \in {0, -1} :
          /\ written' = Append(written, [values |-> code_values1[code + 1], ret |-> ret])
          /\ level' = IF ret = 0 THEN Drive1(code_values1[code + 1]) ELSE level
    /\ pc' = "o1_next_code"
    /\ UNCHANGED <<prog, exit_status, values_old, values_new, code,
                   quitting, handler, settings, line_config, request_config,
                   chip, request, i, out, teardown>>
    /\ UNCHANGED ieVars

\* code = 1 - code
FlipCode(c) == 1 - c

\* the code for the next pass of the loop
O1NextCode ==
    /\ pc = "o1_next_code"
    /\ code' = FlipCode(code)
    /\ pc' = "o1_while_test"
    /\ UNCHANGED <<prog, exit_status, values_old, values_new, written,
                   quitting, handler, settings, line_config, request_config,
                   chip, request, level, i, out, teardown>>
    /\ UNCHANGED ieVars

\* (mutant) the write after the loop hands over the value of the current code
O1SetValueFinal_CurrentCode ==
    /\ pc = "o1_set_final"
    /\ request = "held"
    /\ \E ret \in {0, -1} :
          /\ written' = Append(written, [values |-> code_values1[code + 1], ret |-> ret])
          /\ level' = IF ret = 0 THEN Drive1(code_values1[code + 1]) ELSE level
    /\ pc' = "o1_release"
    /\ UNCHANGED <<prog, exit_status, values_old, values_new, code,
                   quitting, handler, settings, line_config, request_config,
                   chip, request, i, out, teardown>>
    /\ UNCHANGED ieVars

\* gpiod_line_request_set_value(request, gpio_num, code_values[0]) after the loop
O1SetValueFinal ==
    /\ pc = "o1_set_final"
    /\ request = "held"
    /\ \E ret \in {0, -1} :
          /\ written' = Append(written, [values |-> code_values1[1], ret |-> ret])
          /\ level' = IF ret = 0 THEN Drive1(code_values1[1]) ELSE level
    /\ pc' = "o1_release"
    /\ UNCHANGED <<prog, exit_status, values_old, values_new, code,
                   quitting, handler, settings, line_config, request_config,
                   chip, request, i, out, teardown>>
    /\ UNCHANGED ieVars

\* gpiod_line_request_release(request); request = nullptr
O1Release ==
    /\ pc = "o1_release"
    /\ request' = "released"
    /\ teardown' = Append(teardown, "release")
    /\ pc' = "o1_return"
    /\ UNCHANGED <<prog, exit_status, values_old, values_new, code,
                   written, quitting, handler, settings, line_config,
                   request_config, chip, level, i, out>>
    /\ UNCHANGED ieVars

\* return 0
O1Return ==
    /\ pc = "o1_return"
    /\ exit_status' = 0
    /\ pc' = "done"
    /\ UNCHANGED <<prog, values_old, values_new, code, written, quitting,
                   handler, settings, line_config, request_config, chip,
                   request, level, i, out, teardown>>
    /\ UNCHANGED ieVars

O1Step ==
    \/ O1LineConfigNew \/ O1SettingsNew \/ O1AddLineSettings
    \/ O1SettingsFree \/ O1SetOutputValues \/ O1ChipOpen
    \/ O1RequestConfigNew \/ O1RequestLines \/ O1RequestConfigFree
    \/ O1LineConfigFree \/ O1CloseChip \/ O1SignalInstall \/ O1WhileTest
    \/ O1Sleep \/ O1SetValue \/ O1NextCode \/ O1SetValueFinal
    \/ O1Release \/ O1Return

\* ------------------------------------------------------- specification
\* the steps main takes by itself whenever it is at them
MainStep ==
    \/ EventBufferNew \/ SettingsNew \/ LineConfigNew \/ AddLineSettings
    \/ SettingsFree \/ ChipOpen \/ RequestConfigNew \/ RequestLines
    \/ RequestConfigFree \/ LineConfigFree \/ PrintDebounce \/ SignalInstall
    \/ WhileTest \/ WaitCall \/ WaitReady \/ CheckWait \/ ReadEdgeEvents
    \/ CheckRead \/ ReportEvent \/ PrintSeparator
    \/ Release \/ CloseChip \/ Return

Next == MainStep \/ WaitFails \/ Sigint \/ KernelEvent

Spec == Init /\ [][Next]_vars

\* input_events with a controller that queues the events in bursts
NextBurst == MainStep \/ WaitFails \/ Sigint \/ KernelBurst

SpecBurst == Init /\ [][NextBurst]_vars

\* the polling programs, each by itself
NextInputSimple == IsStep \/ Sigint \/ LineChange

SpecInputSimple == InitInputSimple /\ [][NextInputSimple]_vars

NextOutputSimple == OsStep \/ Sigint

SpecOutputSimple == InitOutputSimple /\ [][NextOutputSimple]_vars

NextOutput1Simple == O1Step \/ Sigint

SpecOutput1Simple == InitOutput1Simple /\ [][NextOutput1Simple]_vars

\* the two output programs
InitOutputs == InitOutputSimple \/ InitOutput1Simple

NextOutputs == OsStep \/ O1Step \/ Sigint

SpecOutputs == InitOutputs /\ [][NextOutputs]_vars

\* any one of the four programs
NextAll ==
    \/ MainStep \/ WaitFails \/ KernelEvent
    \/ IsStep \/ LineChange
    \/ OsStep
    \/ O1Step
    \/ Sigint

SpecAll == InitAll /\ [][NextAll]_vars

\* main is scheduled: a step it can take is eventually taken.  Nothing
\* obliges the operator, the controller or a failure to act.
FairSpec == Spec /\ WF_vars(MainStep)


\* ------------------------------------------------- views of the history
\* the event lines printed so far, in order
Reported == SelectSeq(out, LAMBDA l : l.kind = "event")

RECURSIVE Flatten(_)
Flatten(bs) == IF bs = <<>> THEN <<>> ELSE Head(bs) \o Flatten(Tail(bs))

\* every event read so far, batch after batch, each batch in index order
ReadLog == Flatten(batches)

InLoop == {"while_test", "wait", "blocked", "check_wait", "read",
           "check_read", "for"}

InTeardown == {"release", "close", "return", "done"}

\* main is at a step it can take
MainCanStep == ENABLED MainStep

\* ------------------------------------------------------------------ C1
\* C1: once the SIGINT handler has set quitting, main eventually leaves the
\* monitoring loop (it reaches the teardown, or a failed call has stopped
\* it) although no further edge event arrives.
C1_CancelLeavesLoop == quitting ~> (pc \in InTeardown \/ pc = "aborted")

\* C1, as a finite run refutes it: once quitting is set, main is never left
\* in the loop without a step it can take by itself (asleep in the wait
\* with nothing but a further edge event or a further SIGINT to wake it).
C1_CancelledMainNeverStuck == (quitting /\ pc \in InLoop) => MainCanStep

\* ------------------------------------------------------------------ C2
\* C2: when SIGINT wakes the sleeping wait (-1, errno EINTR) main's next
\* step goes to the release; from then on nothing is read or printed, main
\* can always take its next step until it is done, and at the end release
\* and close have each run once, release first.
C2_InterruptedWaitDrains ==
    [][ /\ (pc = "check_wait" /\ r2 < 0 /\ errno = "EINTR" /\ pc' # pc)
              => pc' = "release"
        /\ interrupted
              => /\ out' = out /\ batches' = batches /\ buffer' = buffer
                 /\ pc' \in {"check_wait"} \cup InTeardown
                 /\ pc' # "done" => MainCanStep'
        /\ (interrupted' /\ pc' = "done")
              => teardown' = <<"release", "close">> ]_vars

C2_Witness ==
    /\ interrupted
    /\ pc = "done"
    /\ Len(Reported) > 0

\* ------------------------------------------------------------------ C3
\* C3: when the process has ended (return from main or a failed assert),
\* no request is still held and no chip is still open.
C3_TeardownOnEveryExit ==
    pc \in {"done", "aborted"} => (request # "held" /\ chip # "open")

\* ------------------------------------------------------------------ C4
\* C4: the first event line carries no delta; every later one carries the
\* delta timestamp_ns - (timestamp_ns of the line before); after a line is
\* printed last_ns is its timestamp.
C4_DeltaRule ==
    /\ \A k \in 1..Len(Reported) :
          IF k = 1
             THEN ~Reported[k].has_delta
             ELSE /\ Reported[k].has_delta
                  /\ Reported[k].delta =
                        Reported[k].timestamp_ns - Reported[k-1].timestamp_ns
    /\ Len(Reported) > 0
          => last_ns = Reported[Len(Reported)].timestamp_ns


\* ------------------------------------------------------------------ C5
\* the printed line l is the line of the event e
SameEvent(l, e) ==
    /\ l.global_seqno = e.global_seqno
    /\ l.line_seqno = e.line_seqno
    /\ l.pin_num = e.line_offset
    /\ l.pin_val = (IF e.event_type = "RISING_EDGE" THEN 1 ELSE 0)
    /\ l.timestamp_ns = e.timestamp_ns

\* C5: the event lines printed so far are, in order, the lines of a prefix
\* of the events read so far (batch after batch, each in index order), and
\* outside the reporting of a batch every event read has been printed.
C5_ReportedIsPrefixOfRead ==
    /\ Len(Reported) <= Len(ReadLog)
    /\ \A k \in 1..Len(Reported) : SameEvent(Reported[k], ReadLog[k])
    /\ pc \in ((InLoop \cup InTeardown) \ {"check_read", "for"})
          => Len(Reported) = Len(ReadLog)

C5_Witness ==
    /\ pc = "for"
    /\ Len(batches) = 2
    /\ Len(batches[1]) = 1
    /\ Len(buffer) = 2
    /\ i = 1

\* ------------------------------------------------------------------ C6
\* C6: whenever a wait begins after a read, the read's num_events event
\* lines and then one blank line have been printed since that read.
C6_BatchDrainedBeforeWait ==
    (pc \in {"wait", "blocked"} /\ batches # <<>>)
        => /\ Len(out) = outLenAtRead + num_events + 1
           /\ \A k \in 1..num_events : out[outLenAtRead + k].kind = "event"
           /\ out[Len(out)].kind = "separator"

C6_Witness ==
    /\ pc = "blocked"
    /\ Len(batches) = 2
    /\ num_events = 2

\* ------------------------------------------------------------------ C7
\* C7: global_seqno grows strictly from each printed event line to the
\* next, the controller numbering events in the order it queues them.
C7_GlobalSeqnoIncreasing ==
    \A k \in 2..Len(Reported) :
        Reported[k-1].global_seqno < Reported[k].global_seqno

C7_Witness ==
    /\ Len(Reported) = 3
    /\ Len(batches) = 2
    /\ Len(batches[1]) = 2
    /\ Reported[2].pin_num # Reported[3].pin_num

\* ------------------------------------------------------------------ C8
\* C8: of two printed event lines for the same line offset, the later has
\* the strictly greater line_seqno.
C8_LineSeqnoIncreasingPerLine ==
    \A j, k \in 1..Len(Reported) :
        (j < k /\ Reported[j].pin_num = Reported[k].pin_num)
            => Reported[j].line_seqno < Reported[k].line_seqno

\* same offset in two batches, an event of the other offset in between
C8_Witness ==
    /\ Len(Reported) = 3
    /\ Len(batches) = 2
    /\ Reported[1].pin_num = Reported[3].pin_num
    /\ Reported[2].pin_num # Reported[1].pin_num

\* ------------------------------------------------------------------ C9
\* C9: timestamp_ns never decreases from one printed event line to the
\* next, so a printed delta is the true difference of the two timestamps
\* (the uint64_t subtraction has not wrapped).
C9_TimestampsNeverWrap ==
    \A k \in 2..Len(Reported) :
        /\ Reported[k-1].timestamp_ns <= Reported[k].timestamp_ns
        /\ Reported[k].has_delta
              => Reported[k].delta =
                    Reported[k].timestamp_ns - Reported[k-1].timestamp_ns

C9_Witness ==
    /\ Len(Reported) >= 2
    /\ Len(batches) = 2
    /\ Reported[2].has_delta
    /\ Reported[2].delta > 0

\* ----------------------------------------------------------------- C10
RECURSIVE KindsOfBatch(_)
KindsOfBatch(b) ==
    IF b = <<>> THEN <<"separator">> ELSE <<"event">> \o KindsOfBatch(Tail(b))

RECURSIVE ExpectedKinds(_)
ExpectedKinds(bs) ==
    IF bs = <<>> THEN <<>> ELSE KindsOfBatch(Head(bs)) \o ExpectedKinds(Tail(bs))

\* what has been printed after the banner
Stream == SelectSeq(out, LAMBDA l : l.kind # "banner")

\* C10: the printed stream is, batch by batch, the event lines of the batch
\* followed by one blank line: no blank line inside a batch, none missing
\* after a batch, and none for a wait cycle in which nothing was read.
C10_OneSeparatorPerBatch ==
    LET expected == ExpectedKinds(batches) IN
    /\ Len(Stream) <= Len(expected)
    /\ \A k \in 1..Len(Stream) : Stream[k].kind = expected[k]
    /\ pc \in ((InLoop \cup InTeardown) \ {"check_read", "for"})
          => Len(Stream) = Len(expected)

C10_Witness ==
    /\ pc = "done"
    /\ interrupted
    /\ Len(batches) = 2
    /\ Len(batches[2]) = 2

\* ------------------------------------------------------------------- C11
\* C11: every successful read yields a count with 0 < count <= max_events,
\* also when more than max_events events are queued; while a batch is being
\* reported the records printed for it are as many as the loop index, which
\* never exceeds the count, the reporter reads the buffer only at an index
\* below the count, and once the batch is closed by its separator the
\* records printed for it are exactly count.
C11_CountBoundsBatch ==
    /\ \A b \in 1..Len(batches) :
          Len(batches[b]) > 0 /\ Len(batches[b]) <= max_events
    /\ pc = "check_read" /\ num_events # -1
          => num_events > 0 /\ num_events <= max_events
    /\ pc = "for"
          => /\ num_events = Len(buffer)
             /\ i <= num_events
             /\ Len(out) = outLenAtRead + i
             /\ LoopContinues(i, buffer) => i < num_events
    /\ (pc \in {"while_test", "wait", "blocked"} /\ batches # <<>>)
          => Len(out) = outLenAtRead + num_events + 1

\* a read has filled the events buffer to its capacity and left an event in
\* the queue, and main is reporting the last event of that batch
C11_Witness ==
    /\ pc = "for"
    /\ num_events = max_events
    /\ i = max_events - 1
    /\ Len(batches) = 1
    /\ Len(kq) = 1
    /\ gseq = max_events + 1

\* ------------------------------------------------------------------- C12
\* C12 as stated: a wait that returns 0 (TimedOut) is followed by the next
\* wait, with nothing read or reported; and the loop is left only from a
\* wait that was interrupted or from a call that failed.
C12_OnlyWaitResultLeavesLoop ==
    [][ /\ (pc = "check_wait" /\ r2 = 0 /\ pc' # pc)
              => /\ pc' \in {"while_test", "wait"}
                 /\ out' = out /\ batches' = batches
        /\ (pc \in InLoop /\ pc' \notin InLoop)
              => \/ pc = "check_wait" /\ r2 < 0
                 \/ pc = "check_read" /\ num_events <= 0 ]_vars

\* C12 (amended): the wait has no timeout and returns 1 or -1, never 0; after
\* it main reads if it returned 1, leaves to the teardown if it returned -1
\* with EINTR, and aborts on anything else; the loop is left on an
\* interrupted wait, on a failed wait or read (abort), and at the loop test
\* once quitting is set.
C12_LoopExits ==
    [][ /\ pc' = "check_wait" => r2' \in {1, -1}
        /\ (pc = "check_wait" /\ pc' # pc)
              => pc' = IF r2 < 0 /\ errno = "EINTR" THEN "release"
                       ELSE IF r2 = 1 THEN "read" ELSE "aborted"
        /\ (pc \in InLoop /\ pc' \notin InLoop)
              => \/ pc = "check_wait" /\ r2 < 0 /\ errno = "EINTR"
                    /\ pc' = "release"
                 \/ pc = "check_wait" /\ r2 # 1 /\ pc' = "aborted"
                 \/ pc = "check_read" /\ num_events <= 0 /\ pc' = "aborted"
                 \/ pc = "while_test" /\ quitting /\ pc' = "release" ]_vars

\* the loop was left at its test: the last wait returned 1, its batch was
\* reported, and quitting was found set
C12_Witness ==
    /\ pc = "release"
    /\ r2 = 1
    /\ quitting
    /\ ~interrupted
    /\ batches # <<>>

\* ------------------------------------------------------------------- C13
\* C13 as stated: in every program, whenever the chip has been closed the
\* request has been released before.
C13_CloseOnlyAfterRelease ==
    chip = "closed" => request = "released"

\* C13 (amended): in input_events, input_simple and output_simple the chip
\* is closed only after the request has been released; output1_simple
\* closes the chip right after the lines are requested, before the request
\* is used or released, and does not close it again.
C13_CloseOrderPerProgram ==
    /\ prog # "output1_simple"
          => /\ chip = "closed" => request = "released"
             /\ teardown \in {<<>>, <<"release">>, <<"release", "close">>}
    /\ prog = "output1_simple"
          => /\ teardown \in {<<>>, <<"close">>, <<"close", "release">>}
             /\ request = "released" => chip = "closed"
             /\ written # <<>> => chip = "closed"
             /\ handler => chip = "closed"

\* output1_simple writes to the line with the chip closed and the request
\* held
C13_Witness ==
    /\ prog = "output1_simple"
    /\ pc = "o1_next_code"
    /\ chip = "closed"
    /\ request = "held"
    /\ Len(written) = 2
    /\ teardown = <<"close">>

\* ------------------------------------------------------------------- C14
\* the positions at which main calls wait, read, get_values, set_values or
\* set_value on the request
RequestUsePcs ==
    {"wait", "blocked", "read", "is_get_values_old", "is_get_values_new",
     "os_set", "os_set_final", "o1_set", "o1_set_final"}

\* the positions main can be at once the request has been released
AfterReleasePcs ==
    {"close", "return", "is_close", "is_return", "os_close", "os_return",
     "o1_return", "done"}

Occurrences(seq, x) == Len(SelectSeq(seq, LAMBDA y : y = x))

\* C14: in every program the request is released at most once and the chip
\* is closed at most once; main is at a call on the request only while the
\* request is held, and after the release only the rest of the teardown
\* follows.
C14_ReleasedOnceNoUseAfter ==
    /\ Occurrences(teardown, "release") <= 1
    /\ Occurrences(teardown, "close") <= 1
    /\ Occurrences(teardown, "release") = 1 <=> request = "released"
    /\ pc \in RequestUsePcs => request = "held"
    /\ request = "released" => pc \in AfterReleasePcs

\* input_simple has polled the lines, printed a change, released the
\* request and closed the chip, once each
C14_Witness ==
    /\ prog = "input_simple"
    /\ pc = "done"
    /\ teardown = <<"release", "close">>
    /\ Len(out) > 1

\* ------------------------------------------------------------------- C15
\* C15: a wait interrupted by the signal (-1 with EINTR) is a normal
\* shutdown: the run never ends at a failed assert, it releases the request
\* and closes the chip, and main returns 0.
C15_InterruptedExitsCleanly ==
    interrupted
       => /\ pc \in {"check_wait"} \cup InTeardown
          /\ pc = "check_wait" => r2 = -1 /\ errno = "EINTR"
          /\ pc \in {"close", "return", "done"} => request = "released"
          /\ pc \in {"return", "done"} => chip = "closed"
          /\ pc = "done" => exit_status = 0

\* main has returned 0 after an interrupted wait
C15_Witness ==
    /\ interrupted
    /\ pc = "done"
    /\ exit_status = 0
    /\ teardown = <<"release", "close">>

\* ------------------------------------------------------------------- C16
\* C16: main comes to the read only from the check of a wait that returned
\* 1, and every read (successful or failed) is made there and moves main on
\* to the check of the read, so that the next read needs a new wait.
C16_ReadFollowsReadyWait ==
    [][ /\ pc' = "read" /\ pc # "read" => pc = "check_wait" /\ r2 = 1
        /\ (batches' # batches \/ num_events' # num_events
               \/ buffer' # buffer \/ Len(kq') < Len(kq))
              => pc = "read" /\ r2 = 1 /\ pc' = "check_read"
        /\ (pc = "read" /\ pc' # "read") => pc' = "check_read" ]_vars

\* the second read of a run is about to be made, after the second wait
C16_Witness ==
    /\ pc = "read"
    /\ r2 = 1
    /\ Len(batches) = 1
    /\ kq # <<>>

\* ------------------------------------------------------------------- C17
\* C17 as stated: when the line request is opened the line settings and the
\* line configuration have both been freed.
C17_BothFreedBeforeRequest ==
    request # "null" => settings = "freed" /\ line_config = "freed"

\* C17 (amended): the line settings are created and freed before the line
\* request is opened; the line configuration is created before it, is the
\* argument of the call that opens it, and is freed right after it; neither
\* is used after it was freed.
C17_SettingsBeforeConfigAfterRequest ==
    /\ request # "null" => settings = "freed" /\ line_config # "null"
    /\ line_config = "freed" => request # "null"
    /\ pc = "add_line_settings" => settings = "live" /\ line_config = "live"
    /\ pc = "request_lines" => settings = "freed" /\ line_config = "live"
    /\ pc \in {"print_debounce", "signal"} \cup InLoop \cup InTeardown
          => settings = "freed" /\ line_config = "freed"

\* the request is open and the line configuration is still to be freed
C17_Witness ==
    /\ pc = "line_config_free"
    /\ request = "held"
    /\ line_config = "live"
    /\ settings = "freed"

\* ------------------------------------------------------------------- C18
\* C18: when quitting is set while a batch is being reported, the loop over
\* the batch goes on to its end (main is never stuck there and moves only
\* within the batch or on to the loop test), all events read and the
\* separator are printed when the loop test is reached, and the loop test
\* then leaves to the release: no further wait, no further read.
C18_BatchFinishedThenExit ==
    [][ /\ (quitting /\ pc = "for")
              => /\ MainCanStep
                 /\ pc' \in {"for", "while_test"}
                 /\ pc' = "for" /\ i' # i
                       => /\ i' = i + 1
                          /\ Len(out') = Len(out) + 1
                          /\ out'[Len(out')].kind = "event"
                 /\ pc' = "while_test"
                       => /\ i = num_events
                          /\ Len(out') = outLenAtRead + num_events + 1
                          /\ out'[Len(out')].kind = "separator"
        /\ (quitting /\ pc = "while_test" /\ pc' # pc) => pc' = "release"
        /\ (quitting /\ pc \in InTeardown)
              => pc' \in InTeardown /\ batches' = batches /\ out' = out ]_vars

\* quitting is set and a batch of two events is half reported
C18_Witness ==
    /\ pc = "for"
    /\ quitting
    /\ r2 = 1
    /\ num_events = 2
    /\ i = 1
    /\ Len(out) = outLenAtRead + 1

\* ------------------------------------------------------------------- C19
\* C19: whenever the request has been released, quitting is set: the break
\* on EINTR is taken only after the handler has run.
C19_ReleasedOnlyWhenCancelled ==
    request = "released" => quitting

\* the request was released on the way out of an interrupted wait
C19_Witness ==
    /\ request = "released"
    /\ interrupted
    /\ r2 = -1
    /\ errno = "EINTR"

\* ------------------------------------------------------------------- C20
PollingPrograms == {"input_simple", "output_simple", "output1_simple"}

PollingCanStep == ENABLED (IsStep \/ OsStep \/ O1Step)

\* C20: in the polling programs, once quitting is set main is never stuck,
\* and when the process has ended it has returned from main with the
\* request released exactly once.
C20_CancelledPollingReleases ==
    (prog \in PollingPrograms /\ quitting)
       => /\ pc \notin Terminated => PollingCanStep
          /\ pc \in Terminated
                => /\ pc = "done"
                   /\ request = "released"
                   /\ Occurrences(teardown, "release") = 1

\* ------------------------------------------------------------------- C21
\* the number a value set stands for: the first offset (pin 23) is the lsb,
\* the second (pin 24) the msb
CodeOf(vals) == vals[1] + 2 * vals[2]

\* the writes made inside the loop of an output program: all writes, but
\* for the one made after the loop
LoopWrites ==
    IF pc \in {"os_release", "os_close", "os_return",
               "o1_release", "o1_return", "done"}
       THEN SubSeq(written, 1, Len(written) - 1)
       ELSE written

\* C21: in output_simple the k-th write of the loop hands over the value set
\* of the number (k - 1) mod 4, so the writes count 0, 1, 2, 3, 0, ... from
\* 0; code is always in 0..3 and is the number of the next write of the
\* loop; a write that succeeded has put that number on the two lines.
C21_CounterSequence ==
    prog = "output_simple"
       => /\ code \in 0..(code_max - 1)
          /\ \A k \in 1..Len(LoopWrites) :
                CodeOf(LoopWrites[k].values) = (k - 1) % code_max
          /\ pc \in {"os_while_test", "os_sleep", "os_set"}
                => code = Len(written) % code_max
          /\ pc = "os_next_code"
                => /\ CodeOf(written[Len(written)].values) = code
                   /\ written[Len(written)].ret = 0
                         => /\ level[lsb_gpio_num] = code % 2
                            /\ level[msb_gpio_num] = code \div 2

\* the fifth write of the loop has wrapped around to 0
C21_Witness ==
    /\ prog = "output_simple"
    /\ pc = "os_next_code"
    /\ Len(written) = code_max + 1
    /\ CodeOf(written[code_max].values) = code_max - 1
    /\ CodeOf(written[code_max + 1].values) = 0
    /\ code = 0

\* ------------------------------------------------------------------- C22
OutputPrograms == {"output_simple", "output1_simple"}

\* the lines an output program has requested
OutputLines ==
    IF prog = "output_simple" THEN {lsb_gpio_num, msb_gpio_num}
                              ELSE {gpio_num}

\* C22: in both output programs, when main has come to the release of the
\* request (and ever after) the last write made on the request handed over
\* the inactive value for every line, and if that write succeeded every
\* line of the request is inactive.
C22_LastWriteInactive ==
    (/\ prog \in OutputPrograms
     /\ pc \in {"os_release", "o1_release"} \/ request = "released")
       => /\ written # <<>>
          /\ LET last == written[Len(written)] IN
                /\ \A k \in 1..Len(last.values) : last.values[k] = 0
                /\ last.ret = 0 => \A o \in OutputLines : level[o] = 0

\* output_simple was cancelled with the lines at 2 and the counter at 3,
\* and has written 0 and released the request
C22_Witness ==
    /\ prog = "output_simple"
    /\ request = "released"
    /\ code = 3
    /\ Len(written) = 4
    /\ CodeOf(written[3].values) = 2
    /\ written[3].ret = 0
    /\ CodeOf(written[4].values) = 0
    /\ written[4].ret = 0

\* ------------------------------------------------------------------- C23
\* C23: in input_simple, when a poll starts values_old holds the values of
\* the poll before; the pass of the for loop for a pin prints one line
\* exactly when the new value of that pin differs from the old one, the
\* line names the pin and its new value, and the pass leaves the old value
\* equal to the new one; nothing else in the loop prints, and when the for
\* loop is over values_old equals values_new for both pins.
C23_PrintIffChanged ==
    [][ prog = "input_simple"
          => /\ (pc \in {"is_while_test", "is_get_values_new"}
                    /\ values_new # <<>>)
                   => values_old = values_new
             /\ pc = "is_usleep" => values_old = values_new
             /\ pc = "is_for"
                   => \A k \in 1..i : values_old[k] = values_new[k]
             /\ (pc = "is_for" /\ i < gpio_pin_cnt /\ i' # i)
                   => /\ i' = i + 1
                      /\ values_old[i + 1] # values_new[i + 1]
                            <=> Len(out') = Len(out) + 1
                      /\ values_old[i + 1] = values_new[i + 1] => out' = out
                      /\ Len(out') = Len(out) + 1
                            => /\ SubSeq(out', 1, Len(out)) = out
                               /\ out'[Len(out')] =
                                     [kind    |-> "pin",
                                      pin_num |-> offsets[i + 1],
                                      pin_val |-> values_new[i + 1]]
                      /\ values_new' = values_new
                      /\ values_old'[i + 1] = values_new[i + 1]
                      /\ \A k \in 1..gpio_pin_cnt :
                            k # i + 1 => values_old'[k] = values_old[k]
             /\ (out' # out /\ pc # "is_print_debounce")
                   => pc = "is_for" /\ i < gpio_pin_cnt ]_vars

\* pin 23 has been handled and the new value of pin 24 differs from the old
\* one: its line is about to be printed
C23_Witness ==
    /\ prog = "input_simple"
    /\ pc = "is_for"
    /\ i = 1
    /\ out[Len(out)] = [kind |-> "pin", pin_num |-> a_gpio_num,
                        pin_val |-> values_new[1]]
    /\ values_old[2] # values_new[2]

=============================================================================
